---- MODULE Spec2Model ----
(***************************************************************************)
(* A model of the MOS 6502 execution core of src/src/machine.rs: the      *)
(* Machine aggregate (registers, status flags, memory), the ALU           *)
(* primitives (load_*, add_with_carry, dec_x), the execution dispatcher   *)
(* (execute_instruction), the fetch/decode step and the run loop.         *)
(*                                                                         *)
(* Signed 8-bit values are the integers -128..127, bytes are 0..255; the  *)
(* casts `as u8` / `as i8` are ToU8 / ToI8, and i8 / u8 arithmetic wraps   *)
(* modulo 256 (the language version of the source has no overflow trap).  *)
(* The status register is the set of the flags that are set.              *)
(***************************************************************************)
EXTENDS Integers, FiniteSets, Sequences, TLC

(***************************************************************************)
(* Bounds of the model.                                                    *)
(***************************************************************************)
\* Number of low memory addresses whose content the model lets differ from
\* zero (the rest of the 64K address space stays zero-filled).
MemSize == 3

\* Number of calls made on the machine from outside (run() counts as one).
MaxOps == 3

\* Number of fetches one run() is followed for.
MaxRunSteps == 6

(***************************************************************************)
(* Value domains.                                                          *)
(***************************************************************************)
Int8 == -128 .. 127

Byte == 0 .. 255

\* `x as u8`: the low 8 bits of a two's-complement value.
ToU8(x) == x % 256

\* `x as i8`: the byte reinterpreted as a signed value; also the result of
\* wrapping i8 arithmetic when applied to the exact integer result.
ToI8(x) == IF x % 256 >= 128 THEN (x % 256) - 256 ELSE x % 256

\* Address arithmetic of the 16-bit program counter.
AddrAdd(a, d) == (a + d) % 65536

(***************************************************************************)
(* Status flags (registers.rs, used through its interface).                *)
(***************************************************************************)
PS_CARRY == {"C"}

PS_ZERO == {"Z"}

PS_OVERFLOW == {"V"}

PS_NEGATIVE == {"N"}

\* The status bits the core never names (interrupt disable, decimal, break).
PS_OTHER == {"I", "D", "B"}

AllFlags == PS_CARRY \cup PS_ZERO \cup PS_OVERFLOW \cup PS_NEGATIVE \cup PS_OTHER

\* StatusArgs::none(): every flag argument false.
StatusArgs_none == [carry |-> FALSE, zero |-> FALSE, overflow |-> FALSE, negative |-> FALSE]

\* Status::new(args): the flags whose argument is true.
Status_new(args) ==
    (IF args.carry THEN PS_CARRY ELSE {})
    \cup (IF args.zero THEN PS_ZERO ELSE {})
    \cup (IF args.overflow THEN PS_OVERFLOW ELSE {})
    \cup (IF args.negative THEN PS_NEGATIVE ELSE {})

\* status.set_with_mask(mask, new): masked replace.
set_with_mask(status, mask, val) == (status \ mask) \cup (val \cap mask)

\* status.get_carry(): 1 if Carry is set, else 0.
get_carry(status) == IF "C" \in status THEN 1 ELSE 0

\* status.contains(flag)
contains(status, flag) == flag \subseteq status

(***************************************************************************)
(* Memory (memory.rs, used through its interface): zero-filled 64K, of     *)
(* which the model stores the first MemSize bytes.                         *)
(***************************************************************************)
LowAddr == 0 .. (MemSize - 1)

Memory_new == [a \in LowAddr |-> 0]

get_byte(memory, addr) == IF addr \in LowAddr THEN memory[addr] ELSE 0

\* get_slice(start, n): n contiguous bytes.
get_slice(memory, start, n) == [i \in 1 .. n |-> get_byte(memory, AddrAdd(start, i - 1))]

(***************************************************************************)
(* Machine::new                                                            *)
(***************************************************************************)
Machine_new ==
    [accumulator |-> 0, index_x |-> 0, index_y |-> 0, program_counter |-> 0,
     status |-> {}, memory |-> Memory_new]

(***************************************************************************)
(* ALU primitives.  Each takes the machine record and returns the machine *)
(* after the call.                                                         *)
(***************************************************************************)
\* Mutant of LoadMask: the whole status is replaced.
LoadMask_whole_status == AllFlags

\* The mask load_register_with_flags replaces.
LoadMask == PS_ZERO \cup PS_NEGATIVE

\* Mutant of load_register_with_flags: is_negative tests value <= 0.
load_register_with_flags_nonpositive(status, value) ==
    LET is_zero == value = 0
        is_negative == value <= 0
    IN set_with_mask(status, LoadMask,
           Status_new([StatusArgs_none EXCEPT !.zero = is_zero, !.negative = is_negative]))

\* The status after load_register_with_flags(register, status, value).
load_register_with_flags(status, value) ==
    LET is_zero == value = 0
        is_negative == value < 0
    IN set_with_mask(status, LoadMask,
           Status_new([StatusArgs_none EXCEPT !.zero = is_zero, !.negative = is_negative]))

load_x_register(m, value) ==
    [m EXCEPT !.index_x = value, !.status = load_register_with_flags(m.status, value)]

load_y_register(m, value) ==
    [m EXCEPT !.index_y = value, !.status = load_register_with_flags(m.status, value)]

load_accumulator(m, value) ==
    [m EXCEPT !.accumulator = value, !.status = load_register_with_flags(m.status, value)]

\* Mutant of adc_a_after: the i8 sum saturates instead of wrapping.
adc_a_after_saturating(m, value) ==
    LET sum == m.accumulator + get_carry(m.status) + value
    IN IF sum > 127 THEN 127 ELSE IF sum < -128 THEN -128 ELSE sum

\* a_after: a_before + c_before + value in wrapping i8 arithmetic.
adc_a_after(m, value) == ToI8(m.accumulator + get_carry(m.status) + value)

\* The right-hand side of the debug assertion, in wrapping u8 arithmetic.
adc_assert_rhs(m, value) ==
    ToU8(ToU8(ToU8(m.accumulator) + ToU8(get_carry(m.status))) + ToU8(value))

\* debug_assert_eq!(a_after as u8, a_before as u8 + c_before as u8 + value as u8)
adc_debug_assert(m, value) == ToU8(adc_a_after(m, value)) = adc_assert_rhs(m, value)

\* Mutant of did_carry: the comparison is made on the signed values.
did_carry_signed(m, value) == adc_a_after(m, value) < m.accumulator

\* did_carry: (a_after as u8) < (a_before as u8).
did_carry(m, value) == ToU8(adc_a_after(m, value)) < ToU8(m.accumulator)

did_overflow(m, value) ==
    LET a_before == m.accumulator
        a_after == adc_a_after(m, value)
    IN \/ (a_before < 0 /\ value < 0 /\ a_after >= 0)
       \/ (a_before > 0 /\ value > 0 /\ a_after <= 0)

\* Mutant of AdcMask: only Carry is replaced.
AdcMask_carry_only == PS_CARRY

\* The mask add_with_carry replaces before it loads the accumulator.
AdcMask == PS_CARRY \cup PS_OVERFLOW

\* Mutant of add_with_carry: the sum is stored in the accumulator directly,
\* without the load that recomputes Zero and Negative.
add_with_carry_unflagged(m, value) ==
    [m EXCEPT !.accumulator = adc_a_after(m, value),
              !.status = set_with_mask(m.status, AdcMask,
                             Status_new([StatusArgs_none EXCEPT
                                            !.carry = did_carry(m, value),
                                            !.overflow = did_overflow(m, value)]))]

add_with_carry(m, value) ==
    LET flagged == [m EXCEPT !.status =
                        set_with_mask(m.status, AdcMask,
                            Status_new([StatusArgs_none EXCEPT
                                           !.carry = did_carry(m, value),
                                           !.overflow = did_overflow(m, value)]))]
    IN load_accumulator(flagged, adc_a_after(m, value))

\* Mutant of dec_x: the decrement saturates at the minimum value.
dec_x_saturating(m) ==
    load_x_register(m, IF m.index_x = -128 THEN -128 ELSE m.index_x - 1)

\* Mutant of dec_x: the decrement is stored in index_x directly, without
\* the load that recomputes Zero and Negative.
dec_x_unflagged(m) == [m EXCEPT !.index_x = ToI8(m.index_x - 1)]

dec_x(m) == load_x_register(m, ToI8(m.index_x - 1))

(***************************************************************************)
(* Calls on the ALU: [op, arg].  Apply performs one.                       *)
(***************************************************************************)
NoCall == [op |-> "none", arg |-> 0]

Call(op, arg) == [op |-> op, arg |-> arg]

Apply(m, call) ==
    CASE call.op = "load_accumulator" -> load_accumulator(m, call.arg)
      [] call.op = "load_x_register" -> load_x_register(m, call.arg)
      [] call.op = "load_y_register" -> load_y_register(m, call.arg)
      [] call.op = "add_with_carry" -> add_with_carry(m, call.arg)
      [] call.op = "dec_x" -> dec_x(m)
      [] OTHER -> m

(***************************************************************************)
(* Instructions, operands and the opcode table (instruction.rs, used      *)
(* through its interface).  The table holds the entries the model's       *)
(* memory images use; every other byte is taken as undefined.             *)
(***************************************************************************)
\* Instruction tags: the six with semantics, and two without.
Instructions == {"ADC", "DEX", "LDA", "LDX", "LDY", "NOP", "BRK", "INX"}

UseImplied == [kind |-> "UseImplied", val |-> 0]

UseImmediate(b) == [kind |-> "UseImmediate", val |-> b]

UseAddress(a) == [kind |-> "UseAddress", val |-> a]

None == [instr |-> "None", am |-> UseImplied]

Some(instr, am) == [instr |-> instr, am |-> am]

\* OPCODES[x]: (instruction, addressing mode), or None.
OPCODES(x) ==
    CASE x = 0 -> <<"BRK", "Implied">>
      [] x = 101 -> <<"ADC", "ZeroPage">>
      [] x = 105 -> <<"ADC", "Immediate">>
      [] x = 109 -> <<"ADC", "Absolute">>
      [] x = 160 -> <<"LDY", "Immediate">>
      [] x = 162 -> <<"LDX", "Immediate">>
      [] x = 165 -> <<"LDA", "ZeroPage">>
      [] x = 169 -> <<"LDA", "Immediate">>
      [] x = 202 -> <<"DEX", "Implied">>
      [] x = 232 -> <<"INX", "Implied">>
      [] x = 234 -> <<"NOP", "Implied">>
      [] OTHER -> <<"None", "None">>

IsDefinedOpcode(x) == OPCODES(x)[1] /= "None"

\* am.extra_bytes(): operand width beyond the opcode byte.
extra_bytes(am) ==
    CASE am = "Implied" -> 0
      [] am = "Immediate" -> 1
      [] am = "ZeroPage" -> 1
      [] am = "Absolute" -> 2
      [] OTHER -> 0

\* am.process(machine, slice): the resolved operand.
process(am, slice) ==
    CASE am = "Immediate" -> UseImmediate(slice[1])
      [] am = "ZeroPage" -> UseAddress(slice[1])
      [] am = "Absolute" -> UseAddress(slice[1] + 256 * slice[2])
      [] OTHER -> UseImplied

(***************************************************************************)
(* fetch_next_and_decode: the decoded instruction (or None) and the       *)
(* machine after the call.                                                 *)
(***************************************************************************)
\* Mutant of fetch_advance: the counter steps over the opcode byte only and
\* lands on the operand.
fetch_advance_opcode_only(pc, num_bytes) == AddrAdd(pc, 1)

\* The program counter after a successful fetch.
fetch_advance(pc, num_bytes) == AddrAdd(pc, num_bytes)

\* Mutant of fetch_data_start: the operand slice starts at the opcode byte.
fetch_data_start_at_opcode(pc) == pc

\* data_start: the address of the first operand byte.
fetch_data_start(pc) == AddrAdd(pc, 1)

\* Mutant of fetch_none: the counter steps over the undefined opcode byte.
fetch_none_advancing(m) == [m EXCEPT !.program_counter = AddrAdd(@, 1)]

\* The machine after a fetch that finds no opcode.
fetch_none(m) == m

fetch_next_and_decode(m) ==
    LET x == get_byte(m.memory, m.program_counter)
        entry == OPCODES(x)
    IN IF entry[1] /= "None"
       THEN LET extra == extra_bytes(entry[2])
                num_bytes == 1 + extra
                data_start == fetch_data_start(m.program_counter)
                slice == get_slice(m.memory, data_start, extra)
                am_out == process(entry[2], slice)
            IN [ret |-> Some(entry[1], am_out),
                m |-> [m EXCEPT !.program_counter =
                                    fetch_advance(m.program_counter, num_bytes)]]
       ELSE [ret |-> None, m |-> fetch_none(m)]

(***************************************************************************)
(* execute_instruction: the match over (instruction, operand), as the     *)
(* ALU call each arm makes.                                                *)
(***************************************************************************)
\* Mutant of nop_arm: No-Operation reloads the accumulator with itself, which
\* recomputes Zero and Negative.
nop_arm_reloads(m) == Call("load_accumulator", m.accumulator)

\* The (NOP, _) arm.
nop_arm(m) == NoCall

\* The (_, _) arm: an unimplemented instruction.
unimplemented_arm(m) == NoCall

\* Mutant of dex_arm_matches: the arm is (DEX, _).
dex_arm_matches_any_operand(d) == d.instr = "DEX"

\* The pattern (DEX, UseImplied).
dex_arm_matches(d) == d.instr = "DEX" /\ d.am.kind = "UseImplied"

\* Mutant of operand_as_i8: the operand byte is passed on unsigned.
operand_as_i8_unsigned(val) == val

\* `val as i8`: the operand byte reinterpreted as a signed value.
operand_as_i8(val) == ToI8(val)

dispatch(m, d) ==
    CASE d.instr = "ADC" /\ d.am.kind = "UseImmediate" ->
             Call("add_with_carry", operand_as_i8(d.am.val))
      [] d.instr = "ADC" /\ d.am.kind = "UseAddress" ->
             Call("add_with_carry", operand_as_i8(get_byte(m.memory, d.am.val)))
      [] dex_arm_matches(d) ->
             Call("dec_x", 0)
      [] d.instr = "LDA" /\ d.am.kind = "UseImmediate" ->
             Call("load_accumulator", operand_as_i8(d.am.val))
      [] d.instr = "LDA" /\ d.am.kind = "UseAddress" ->
             Call("load_accumulator", operand_as_i8(get_byte(m.memory, d.am.val)))
      [] d.instr = "LDX" /\ d.am.kind = "UseImmediate" ->
             Call("load_x_register", operand_as_i8(d.am.val))
      [] d.instr = "LDX" /\ d.am.kind = "UseAddress" ->
             Call("load_x_register", operand_as_i8(get_byte(m.memory, d.am.val)))
      [] d.instr = "LDY" /\ d.am.kind = "UseImmediate" ->
             Call("load_y_register", operand_as_i8(d.am.val))
      [] d.instr = "LDY" /\ d.am.kind = "UseAddress" ->
             Call("load_y_register", operand_as_i8(get_byte(m.memory, d.am.val)))
      [] d.instr = "NOP" -> nop_arm(m)
      [] OTHER -> unimplemented_arm(m)

\* Mutant of execute_instruction: executing steps the program counter over
\* the opcode byte once more.
execute_instruction_advancing(m, d) ==
    [Apply(m, dispatch(m, d)) EXCEPT !.program_counter = AddrAdd(@, 1)]

execute_instruction(m, d) == Apply(m, dispatch(m, d))

(***************************************************************************)
(* State.                                                                  *)
(*   machine  the Machine: registers, status and memory                    *)
(*   loop     the position of run(): idle, about to fetch, or about to     *)
(*            execute the decoded instruction it holds                     *)
(*   last     the most recent step: the call, its input, its result and    *)
(*            the machine before it                                        *)
(*   recent   what the most recent ALU calls computed                      *)
(*   ops      the number of calls made from outside                        *)
(*   chain    where a sequence of ALU calls is followed as a whole: the    *)
(*            calls made so far, each with the accumulator it left         *)
(***************************************************************************)
VARIABLES machine, loop, last, recent, ops, chain

vars == <<machine, loop, last, recent, ops, chain>>

LoopIdle ==
    [pc |-> "idle", decoded |-> None, fetched |-> 0, executed |-> 0,
     returned |-> FALSE, start |-> Machine_new]

LastNone ==
    [op |-> "new", arg |-> 0, d |-> None, ret |-> None, pre |-> Machine_new,
     nops |-> 0, base |-> Machine_new]

RecentNone ==
    [any |-> FALSE, written |-> 0, adc |-> FALSE, carry |-> FALSE,
     overflow |-> FALSE, asserted |-> TRUE]

\* No sequence of calls is followed.
ChainOff == [on |-> FALSE, calls |-> <<>>]

\* The sequence followed, after the ALU call `call` made on machine m.
ChainAfter(ch, m, call) ==
    IF ch.on
    THEN [ch EXCEPT !.calls = Append(@, [op |-> call.op, arg |-> call.arg,
                                         acc |-> Apply(m, call).accumulator])]
    ELSE ch

\* What the ALU call `call`, made on machine m, leaves as the most recent
\* written value and computed flags.
RecentAfter(r, m, call) ==
    CASE call.op \in {"load_accumulator", "add_with_carry"} ->
             [r EXCEPT !.any = TRUE,
                       !.written = Apply(m, call).accumulator,
                       !.adc = (r.adc \/ call.op = "add_with_carry"),
                       !.carry = IF call.op = "add_with_carry"
                                 THEN did_carry(m, call.arg) ELSE r.carry,
                       !.overflow = IF call.op = "add_with_carry"
                                    THEN did_overflow(m, call.arg) ELSE r.overflow,
                       !.asserted = IF call.op = "add_with_carry"
                                    THEN r.asserted /\ adc_debug_assert(m, call.arg)
                                    ELSE r.asserted]
      [] call.op \in {"load_x_register", "dec_x"} ->
             [r EXCEPT !.any = TRUE, !.written = Apply(m, call).index_x]
      [] call.op = "load_y_register" ->
             [r EXCEPT !.any = TRUE, !.written = Apply(m, call).index_y]
      [] OTHER -> r

\* Values the ALU calls of a sequence are made with.
InputVals == {-128, -1, 0, 1, 127}

\* Values the ALU calls of the main specification are made with.
MainVals == {-1, 1}

\* Bytes the memory images are made of: an undefined opcode, NOP,
\* LDA immediate, ADC zero page, DEX.
ProgBytes == {2, 234, 169, 101, 202}

Images == [LowAddr -> ProgBytes]

Init ==
    /\ machine = Machine_new
    /\ loop = LoopIdle
    /\ last = LastNone
    /\ recent = RecentNone
    /\ ops = 0
    /\ chain = ChainOff

(***************************************************************************)
(* Calls made from outside, while run() is not running.  V is the set the  *)
(* input is drawn from and n the number of calls allowed.                  *)
(***************************************************************************)
\* The record of a step: the call, its input d or arg, its result, the
\* machine before it, and for a streak of executed No-Operation instructions
\* its length and the machine before the streak.
LastRec(op, arg, d, ret) ==
    LET isNop == op \in {"execute_instruction", "run_execute"} /\ d.instr = "NOP"
    IN [op |-> op, arg |-> arg, d |-> d, ret |-> ret, pre |-> machine,
        nops |-> IF isNop THEN last.nops + 1 ELSE 0,
        base |-> IF isNop /\ last.nops > 0 THEN last.base ELSE machine]

CanCall(n) == loop.pc = "idle" /\ ops < n

\* One ALU call.
DoCall(call) ==
    /\ machine' = Apply(machine, call)
    /\ last' = LastRec(call.op, call.arg, None, None)
    /\ recent' = RecentAfter(recent, machine, call)
    /\ chain' = ChainAfter(chain, machine, call)
    /\ ops' = ops + 1
    /\ loop' = LoopIdle

LoadAccumulator(V, n) ==
    CanCall(n) /\ \E v \in V : DoCall(Call("load_accumulator", v))

LoadXRegister(V, n) ==
    CanCall(n) /\ \E v \in V : DoCall(Call("load_x_register", v))

LoadYRegister(V, n) ==
    CanCall(n) /\ \E v \in V : DoCall(Call("load_y_register", v))

AddWithCarry(V, n) ==
    CanCall(n) /\ \E v \in V : DoCall(Call("add_with_carry", v))

DecX(n) == CanCall(n) /\ DoCall(Call("dec_x", 0))

\* Mutant of Reset: the registers are replaced and the memory is kept.
Reset_keeps_memory(n) ==
    /\ CanCall(n)
    /\ machine' = [Machine_new EXCEPT !.memory = machine.memory]
    /\ last' = LastRec("reset", 0, None, None)
    /\ recent' = RecentNone
    /\ ops' = ops + 1
    /\ loop' = LoopIdle
    /\ UNCHANGED chain

\* reset(): the machine is replaced by a new one.
Reset(n) ==
    /\ CanCall(n)
    /\ machine' = Machine_new
    /\ last' = LastRec("reset", 0, None, None)
    /\ recent' = RecentNone
    /\ ops' = ops + 1
    /\ loop' = LoopIdle
    /\ UNCHANGED chain

\* The owner of a new machine writes a program into its memory.
StoreImage(n) ==
    /\ CanCall(n)
    /\ machine = Machine_new
    /\ \E img \in Images :
         /\ machine' = [machine EXCEPT !.memory = img]
         /\ last' = LastRec("store_image", 0, None, None)
    /\ ops' = ops + 1
    /\ loop' = LoopIdle
    /\ UNCHANGED <<recent, chain>>

\* fetch_next_and_decode() called directly.
Fetch(n) ==
    /\ CanCall(n)
    /\ LET f == fetch_next_and_decode(machine)
       IN /\ machine' = f.m
          /\ last' = LastRec("fetch_next_and_decode", 0, None, f.ret)
    /\ ops' = ops + 1
    /\ loop' = LoopIdle
    /\ UNCHANGED <<recent, chain>>

\* execute_instruction(d) called directly, d drawn from D.
Execute(D, n) ==
    /\ CanCall(n)
    /\ \E d \in D :
         /\ machine' = execute_instruction(machine, d)
         /\ last' = LastRec("execute_instruction", 0, d, None)
         /\ recent' = RecentAfter(recent, machine, dispatch(machine, d))
    /\ ops' = ops + 1
    /\ loop' = LoopIdle
    /\ UNCHANGED chain

(***************************************************************************)
(* run(): loop { fetch; if none, break; else execute }.                    *)
(***************************************************************************)
Run(n) ==
    /\ CanCall(n)
    /\ loop' = [pc |-> "fetch", decoded |-> None, fetched |-> 0, executed |-> 0,
                returned |-> FALSE, start |-> machine]
    /\ last' = LastRec("run", 0, None, None)
    /\ ops' = ops + 1
    /\ UNCHANGED <<machine, recent, chain>>

RunFetch ==
    /\ loop.pc = "fetch"
    /\ loop.fetched < MaxRunSteps
    /\ LET f == fetch_next_and_decode(machine)
       IN /\ machine' = f.m
          /\ last' = LastRec("run_fetch", 0, None, f.ret)
          /\ loop' = IF f.ret = None
                     THEN [loop EXCEPT !.pc = "idle", !.returned = TRUE,
                                       !.fetched = @ + 1, !.decoded = None]
                     ELSE [loop EXCEPT !.pc = "execute", !.fetched = @ + 1,
                                       !.decoded = f.ret]
    /\ UNCHANGED <<recent, ops, chain>>

\* Mutant of RunExecute: run() returns after the instruction it executes.
RunExecute_then_returns ==
    /\ loop.pc = "execute"
    /\ machine' = execute_instruction(machine, loop.decoded)
    /\ last' = LastRec("run_execute", 0, loop.decoded, None)
    /\ recent' = RecentAfter(recent, machine, dispatch(machine, loop.decoded))
    /\ loop' = [loop EXCEPT !.pc = "idle", !.returned = TRUE,
                            !.executed = @ + 1, !.decoded = None]
    /\ UNCHANGED <<ops, chain>>

RunExecute ==
    /\ loop.pc = "execute"
    /\ machine' = execute_instruction(machine, loop.decoded)
    /\ last' = LastRec("run_execute", 0, loop.decoded, None)
    /\ recent' = RecentAfter(recent, machine, dispatch(machine, loop.decoded))
    /\ loop' = [loop EXCEPT !.pc = "fetch", !.executed = @ + 1, !.decoded = None]
    /\ UNCHANGED <<ops, chain>>

Next ==
    \/ LoadAccumulator(MainVals, MaxOps)
    \/ LoadXRegister(MainVals, MaxOps)
    \/ LoadYRegister(MainVals, MaxOps)
    \/ AddWithCarry(MainVals, MaxOps)
    \/ DecX(MaxOps)
    \/ Reset(MaxOps)
    \/ StoreImage(MaxOps)
    \/ Fetch(MaxOps)
    \/ Run(MaxOps)
    \/ RunFetch
    \/ RunExecute

Spec == Init /\ [][Next]_vars

(***************************************************************************)
(* Arithmetic over the full 8-bit range: one add_with_carry(v) or dec_x()  *)
(* on a machine whose accumulator and index_x hold any value r (after      *)
(* load_accumulator(r); load_x_register(r)), with the carry either way.    *)
(***************************************************************************)
ArithStatuses ==
    {{}, PS_CARRY, {"Z", "V", "I"}, {"C", "N", "D", "B"}}

ArithStarts ==
    {[Machine_new EXCEPT !.accumulator = r, !.index_x = r, !.index_y = 3, !.status = s] :
        r \in Int8, s \in ArithStatuses}

InitArith ==
    /\ machine \in ArithStarts
    /\ loop = LoopIdle
    /\ last = LastNone
    /\ recent = RecentNone
    /\ ops = 0
    /\ chain = ChainOff

NextArith ==
    \/ AddWithCarry(Int8, 1)
    \/ DecX(1)

SpecArith == InitArith /\ [][NextArith]_vars

(***************************************************************************)
(* The five ALU primitives, once, with any value, on a machine in any      *)
(* status (the registers hold three different values).                     *)
(***************************************************************************)
AluStarts ==
    {[Machine_new EXCEPT !.accumulator = 5, !.index_x = -3, !.index_y = 64,
                         !.program_counter = 2, !.status = s,
                         !.memory = [a \in LowAddr |-> 101 + a]] :
        s \in SUBSET AllFlags}

InitAlu ==
    /\ machine \in AluStarts
    /\ loop = LoopIdle
    /\ last = LastNone
    /\ recent = RecentNone
    /\ ops = 0
    /\ chain = ChainOff

NextAlu ==
    \/ LoadAccumulator(Int8, 1)
    \/ LoadXRegister(Int8, 1)
    \/ LoadYRegister(Int8, 1)
    \/ AddWithCarry(Int8, 1)
    \/ DecX(1)

SpecAlu == InitAlu /\ [][NextAlu]_vars

(***************************************************************************)
(* Properties.                                                             *)
(***************************************************************************)
\* The inputs of the add_with_carry the last step made.
AdcA == last.pre.accumulator

AdcC == get_carry(last.pre.status)

AdcV == last.arg

AdcUnsignedSum == ToU8(AdcA) + AdcC + ToU8(AdcV)

\* C1: after add_with_carry(v) the Carry flag is set iff the unsigned sum
\* unsigned(a) + c + unsigned(v) exceeds 255.
C1_CarryIffUnsignedSumExceeds255 ==
    last.op = "add_with_carry" =>
        (contains(machine.status, PS_CARRY) <=> AdcUnsignedSum > 255)

\* C2: after add_with_carry(v) the Overflow flag is set iff a and v have
\* equal sign bits and the sign bit of the 8-bit result differs from theirs.
C2_OverflowIffSameSignAndResultDiffers ==
    last.op = "add_with_carry" =>
        (contains(machine.status, PS_OVERFLOW) <=>
            /\ (AdcA < 0) = (AdcV < 0)
            /\ (machine.accumulator < 0) /= (AdcA < 0))

\* C3: the accumulator after add_with_carry(v), as an unsigned byte, equals
\* (unsigned(a) + c + unsigned(v)) mod 256, and the debug assertion inside
\* add_with_carry holds.
C3_WraparoundIdentity ==
    last.op = "add_with_carry" =>
        /\ ToU8(machine.accumulator) = AdcUnsignedSum % 256
        /\ machine.accumulator \in Int8
        /\ recent.asserted

\* C3 witness: an add_with_carry whose unsigned sum wrapped past 255 and
\* whose signed sum left the i8 range.
C3_Witness ==
    /\ last.op = "add_with_carry"
    /\ AdcUnsignedSum > 255
    /\ AdcA + AdcC + AdcV < -128

\* C4 as stated: dec_x on index_x = -128 yields 127 with the Negative flag
\* set and the Zero flag clear.
C4_DecMinYieldsMaxNegativeSet ==
    (last.op = "dec_x" /\ last.pre.index_x = -128) =>
        /\ machine.index_x = 127
        /\ contains(machine.status, PS_NEGATIVE)
        /\ ~contains(machine.status, PS_ZERO)

\* C4 amended: dec_x on index_x = -128 yields 127 with the Negative flag
\* clear and the Zero flag clear.
C4_DecMinYieldsMaxNegativeClear ==
    (last.op = "dec_x" /\ last.pre.index_x = -128) =>
        /\ machine.index_x = 127
        /\ ~contains(machine.status, PS_NEGATIVE)
        /\ ~contains(machine.status, PS_ZERO)

\* C4 witness: dec_x has run on index_x = -128 with Negative set before.
C4_Witness ==
    /\ last.op = "dec_x"
    /\ last.pre.index_x = -128
    /\ contains(last.pre.status, PS_NEGATIVE)

\* The register a load call targets.
LoadTarget(m, op) ==
    CASE op = "load_accumulator" -> m.accumulator
      [] op = "load_x_register" -> m.index_x
      [] op = "load_y_register" -> m.index_y

LoadOps == {"load_accumulator", "load_x_register", "load_y_register"}

\* C5: after load_accumulator(v), load_x_register(v) or load_y_register(v)
\* the target register equals v, Zero is set iff v = 0 and Negative is set
\* iff v < 0, whatever Zero and Negative were before.
C5_LoadWithFlags ==
    last.op \in LoadOps =>
        /\ LoadTarget(machine, last.op) = last.arg
        /\ contains(machine.status, PS_ZERO) <=> (last.arg = 0)
        /\ contains(machine.status, PS_NEGATIVE) <=> (last.arg < 0)

\* C5 witness: a load of a negative value into index_y on a machine that had
\* Zero set and Negative clear.
C5_Witness ==
    /\ last.op = "load_y_register"
    /\ last.arg < 0
    /\ contains(last.pre.status, PS_ZERO)
    /\ ~contains(last.pre.status, PS_NEGATIVE)

AluOps == LoadOps \cup {"add_with_carry", "dec_x"}

\* The status bits a primitive may change.
MayChange(op) ==
    IF op = "add_with_carry"
    THEN PS_CARRY \cup PS_OVERFLOW \cup PS_ZERO \cup PS_NEGATIVE
    ELSE PS_ZERO \cup PS_NEGATIVE

\* C6: the loads and dec_x never change Carry or Overflow; add_with_carry
\* changes no status bit other than Carry, Overflow, Zero and Negative; none
\* of the five changes the program counter, memory or a register other than
\* its target.
C6_AluFrame ==
    last.op \in AluOps =>
        /\ machine.status \ MayChange(last.op) = last.pre.status \ MayChange(last.op)
        /\ machine.program_counter = last.pre.program_counter
        /\ machine.memory = last.pre.memory
        /\ last.op \notin {"load_accumulator", "add_with_carry"} =>
               machine.accumulator = last.pre.accumulator
        /\ last.op \notin {"load_x_register", "dec_x"} =>
               machine.index_x = last.pre.index_x
        /\ last.op /= "load_y_register" => machine.index_y = last.pre.index_y

\* C6 witness: a load that changed Zero or Negative on a machine with Carry
\* and Overflow set and a bit outside the four set.
C6_Witness ==
    /\ last.op = "load_x_register"
    /\ machine.status /= last.pre.status
    /\ PS_CARRY \cup PS_OVERFLOW \cup {"D"} \subseteq last.pre.status

(***************************************************************************)
(* Sequences of ALU calls on a fresh machine.                              *)
(***************************************************************************)
\* Number of ALU calls in a sequence.
MaxSeq == 3

NextSeq ==
    \/ LoadAccumulator(InputVals, MaxSeq)
    \/ LoadXRegister(InputVals, MaxSeq)
    \/ LoadYRegister(InputVals, MaxSeq)
    \/ AddWithCarry(InputVals, MaxSeq)
    \/ DecX(MaxSeq)

SpecSeq == Init /\ [][NextSeq]_vars

\* C7: in every state reached from a fresh machine by ALU calls, Zero is set
\* iff the value the most recent call wrote is 0, Negative iff that value is
\* negative, never both, and Carry and Overflow hold what the most recent
\* add_with_carry computed (both clear if there was none).
C7_StatusReflectsMostRecent ==
    /\ recent.any =>
           /\ contains(machine.status, PS_ZERO) <=> (recent.written = 0)
           /\ contains(machine.status, PS_NEGATIVE) <=> (recent.written < 0)
    /\ ~(contains(machine.status, PS_ZERO) /\ contains(machine.status, PS_NEGATIVE))
    /\ contains(machine.status, PS_CARRY) <=> recent.carry
    /\ contains(machine.status, PS_OVERFLOW) <=> recent.overflow
    /\ ~recent.adc => ~recent.carry /\ ~recent.overflow

\* C7 witness: a load of 0 into index_y after an add_with_carry that carried:
\* Zero comes from the load, Carry from the add.
C7_Witness ==
    /\ last.op = "load_y_register"
    /\ last.arg = 0
    /\ recent.adc
    /\ recent.carry
    /\ machine.accumulator /= 0

(***************************************************************************)
(* execute_instruction called directly with any (instruction, operand)     *)
(* pair, and by run(), on machines with a program in memory.               *)
(***************************************************************************)
\* Number of execute_instruction calls in a row.
MaxExec == 2

Operands ==
    {UseImplied} \cup {UseImmediate(b) : b \in {0, 128, 255}}
    \cup {UseAddress(a) : a \in {0, 1}}

AllDecoded == {Some(i, am) : i \in Instructions, am \in Operands}

ExecStarts ==
    {[Machine_new EXCEPT !.accumulator = 5, !.index_x = -3, !.index_y = 64,
                         !.program_counter = 1, !.status = s,
                         !.memory = [a \in LowAddr |-> IF a = 0 THEN 234 ELSE 202]] :
        s \in {{}, {"C", "N", "D"}, {"Z", "V", "I", "B"}}}

InitExec ==
    /\ machine \in ExecStarts
    /\ loop = LoopIdle
    /\ last = LastNone
    /\ recent = RecentNone
    /\ ops = 0
    /\ chain = ChainOff

NextExec ==
    \/ Execute(AllDecoded, MaxExec)
    \/ Run(MaxExec)
    \/ RunFetch
    \/ RunExecute

SpecExec == InitExec /\ [][NextExec]_vars

\* C8: executing No-Operation, with any operand kind and any number of
\* times, leaves every register, every status bit and memory unchanged.
C8_NopChangesNothing ==
    last.nops > 0 => machine = last.base

\* C8 witness: two No-Operation executions in a row, the second with an
\* address operand, on a machine with status bits set.
C8_Witness ==
    /\ last.nops = 2
    /\ last.d.am.kind = "UseAddress"
    /\ machine.status /= {}

\* An (instruction, operand) pair with no implemented case.
Unimplemented(d) ==
    \/ d.instr \in {"BRK", "INX"}
    \/ d.instr = "DEX" /\ d.am.kind /= "UseImplied"
    \/ d.instr \in {"ADC", "LDA", "LDX", "LDY"} /\ d.am.kind = "UseImplied"

\* C9: execute_instruction with a pair that has no implemented case leaves
\* all registers, status bits and memory unchanged, and run() goes on to its
\* next fetch.
C9_UnimplementedChangesNothing ==
    (last.op \in {"execute_instruction", "run_execute"} /\ Unimplemented(last.d)) =>
        /\ machine = last.pre
        /\ last.op = "run_execute" => (loop.pc = "fetch" /\ ~loop.returned)

\* C9 witness: Decrement-X executed with an immediate operand.
C9_Witness ==
    /\ last.op = "execute_instruction"
    /\ last.d.instr = "DEX"
    /\ last.d.am.kind = "UseImmediate"

\* The byte at the program counter of machine m is no defined opcode.
AtUndefinedOpcode(m) == ~IsDefinedOpcode(get_byte(m.memory, m.program_counter))

\* C10: a fetch at an undefined opcode returns none and changes nothing, and
\* a run() started there returns after that one fetch with zero instructions
\* executed and the machine unchanged.
C10_UndefinedOpcodeHalts ==
    /\ (last.op \in {"fetch_next_and_decode", "run_fetch"} /\ AtUndefinedOpcode(last.pre)) =>
           (last.ret = None /\ machine = last.pre)
    /\ (loop.fetched >= 1 /\ AtUndefinedOpcode(loop.start)) =>
           /\ loop.returned
           /\ loop.pc = "idle"
           /\ loop.fetched = 1
           /\ loop.executed = 0
           /\ machine = loop.start

\* C10 witness: run() has returned from a machine that stood at an undefined
\* opcode, with a program in memory and index_x loaded before.
C10_Witness ==
    /\ loop.returned
    /\ AtUndefinedOpcode(loop.start)
    /\ machine.memory /= Memory_new
    /\ machine.index_x /= 0
    /\ machine.status /= {}

(***************************************************************************)
(* fetch_next_and_decode() and run() on a machine whose memory holds any   *)
(* program, from any program counter in or just after the program, with    *)
(* the registers and status holding values of their own.                   *)
(***************************************************************************)
\* Bytes the programs are made of: those of ProgBytes and ADC absolute.
RunBytes == ProgBytes \cup {109}

RunStarts ==
    {[Machine_new EXCEPT !.accumulator = 5, !.index_x = -3, !.index_y = 64,
                         !.program_counter = p, !.status = {"C", "N", "D"},
                         !.memory = img] :
        p \in 0..MemSize, img \in [LowAddr -> RunBytes]}

InitRun ==
    /\ machine \in RunStarts
    /\ loop = LoopIdle
    /\ last = LastNone
    /\ recent = RecentNone
    /\ ops = 0
    /\ chain = ChainOff

NextRun ==
    \/ Fetch(1)
    \/ Run(1)
    \/ RunFetch
    \/ RunExecute

SpecRun == InitRun /\ [][NextRun]_vars

\* The address just past the instruction machine m stands at: its opcode
\* byte and the operand bytes of its addressing mode.
InstrEnd(m) ==
    LET x == get_byte(m.memory, m.program_counter)
    IN (m.program_counter + 1 + extra_bytes(OPCODES(x)[2])) % 65536

\* One step of run() taken from a state where it is about to fetch: a fetch
\* at an undefined opcode ends run() with the counter on that byte and every
\* decoded instruction executed; any other fetch hands its instruction to
\* execute with the counter already past the instruction.
C11_FetchStep ==
    loop.pc = "fetch" =>
        /\ last'.op = "run_fetch"
        /\ loop.executed = loop.fetched
        /\ IF AtUndefinedOpcode(machine)
           THEN /\ loop'.returned
                /\ loop'.pc = "idle"
                /\ loop'.executed = loop.executed
                /\ machine' = machine
                /\ AtUndefinedOpcode(machine')
           ELSE /\ ~loop'.returned
                /\ loop'.pc = "execute"
                /\ last'.ret /= None
                /\ loop'.decoded = last'.ret
                /\ machine'.program_counter = InstrEnd(machine)

\* One step of run() taken from a state where it is about to execute: the
\* instruction executed is the one the fetch just before returned, the
\* counter is past it, and a fetch comes next.
C11_ExecuteStep ==
    loop.pc = "execute" =>
        /\ last.op = "run_fetch"
        /\ last.ret = loop.decoded
        /\ machine.program_counter = InstrEnd(last.pre)
        /\ last'.op = "run_execute"
        /\ last'.d = loop.decoded
        /\ machine' = execute_instruction(machine, loop.decoded)
        /\ loop'.pc = "fetch"
        /\ ~loop'.returned
        /\ loop'.executed = loop.executed + 1
        /\ loop'.executed = loop.fetched

\* C11: run() alternates fetch and execute in that order, executes each
\* decoded instruction exactly once, stops at the first fetch at an undefined
\* opcode and no earlier, executes with the program counter already past the
\* instruction, and returns with the counter on the undefined opcode byte.
C11_RunLoopProtocol == [][C11_FetchStep /\ C11_ExecuteStep]_vars

\* C11 witness: run() has returned after executing an instruction that has
\* an operand.
C11_Witness ==
    /\ loop.returned
    /\ loop.executed >= 1
    /\ machine.program_counter > loop.start.program_counter + loop.executed
    /\ AtUndefinedOpcode(machine)

\* C12: after reset(), whatever came before, the machine is in the state of
\* a newly created one: the three registers and the program counter zero,
\* the Carry, Zero, Overflow and Negative flags clear, memory zero-filled.
C12_ResetRestoresFresh ==
    last.op = "reset" =>
        /\ machine.accumulator = 0
        /\ machine.index_x = 0
        /\ machine.index_y = 0
        /\ machine.program_counter = 0
        /\ machine.status \cap {"C", "Z", "V", "N"} = {}
        /\ \A a \in LowAddr : machine.memory[a] = 0
        /\ machine = Machine_new
        /\ loop = LoopIdle

\* C12 witness: a reset() of a machine that held a program, had run it, and
\* had its accumulator, status and program counter changed by the run.
C12_Witness ==
    /\ last.op = "reset"
    /\ last.pre.memory /= Memory_new
    /\ last.pre.accumulator /= 0
    /\ last.pre.status /= {}
    /\ last.pre.program_counter /= 0

\* The value x - 1 of a signed byte x, modulo 256 in two's complement.
WrappedDec(x) == IF x = -128 THEN 127 ELSE x - 1

\* C13: for every value x of index_x, dec_x leaves x - 1 modulo 256 in
\* index_x (0 becomes -1, byte 255), sets Zero iff the new value is 0 and
\* Negative iff the new value is negative.
C13_DecXWrapsWithFlags ==
    last.op = "dec_x" =>
        /\ machine.index_x = WrappedDec(last.pre.index_x)
        /\ ToU8(machine.index_x) = (ToU8(last.pre.index_x) + 255) % 256
        /\ contains(machine.status, PS_ZERO) <=> (machine.index_x = 0)
        /\ contains(machine.status, PS_NEGATIVE) <=> (machine.index_x < 0)

\* C13 witness: dec_x on index_x = 0 with Zero set and Negative clear before
\* it, leaving -1.
C13_Witness ==
    /\ last.op = "dec_x"
    /\ last.pre.index_x = 0
    /\ machine.index_x = -1
    /\ contains(last.pre.status, PS_ZERO)
    /\ ~contains(last.pre.status, PS_NEGATIVE)

\* The signed byte whose unsigned value is b.
SignedOf(b) == IF b >= 128 THEN b - 256 ELSE b

\* C15: after add_with_carry(v) the accumulator holds the wrapped 8-bit sum
\* of a, the carry-in and v, Zero is set iff that value is 0 and Negative iff
\* it is negative, whatever Zero and Negative were before.
C15_AdcZeroNegative ==
    last.op = "add_with_carry" =>
        /\ machine.accumulator = SignedOf(AdcUnsignedSum % 256)
        /\ contains(machine.status, PS_ZERO) <=> (machine.accumulator = 0)
        /\ contains(machine.status, PS_NEGATIVE) <=> (machine.accumulator < 0)

\* C15 witness: an add_with_carry that wrapped to 0 from a machine with
\* Negative set and Zero clear.
C15_Witness ==
    /\ last.op = "add_with_carry"
    /\ machine.accumulator = 0
    /\ AdcUnsignedSum = 256
    /\ contains(last.pre.status, PS_NEGATIVE)
    /\ ~contains(last.pre.status, PS_ZERO)

\* The operand of the instruction machine m stands at, resolved from the
\* bytes that follow its opcode byte, as many as its addressing mode has.
OperandAt(m) ==
    LET p == m.program_counter
        mode == OPCODES(get_byte(m.memory, p))[2]
        bytes == [i \in 1..extra_bytes(mode) |-> get_byte(m.memory, (p + i) % 65536)]
    IN process(mode, bytes)

\* C14: a fetch at a defined opcode whose addressing mode has n operand
\* bytes resolves the operand from the n bytes at p+1 .. p+n, sets the
\* program counter to p + 1 + n, returns the opcode's instruction with that
\* operand, and changes no register, status bit or memory byte.
C14_FetchAdvance ==
    (last.op \in {"fetch_next_and_decode", "run_fetch"} /\ ~AtUndefinedOpcode(last.pre)) =>
        /\ last.ret /= None
        /\ last.ret.instr = OPCODES(get_byte(last.pre.memory, last.pre.program_counter))[1]
        /\ last.ret.am = OperandAt(last.pre)
        /\ machine.program_counter = InstrEnd(last.pre)
        /\ machine = [last.pre EXCEPT !.program_counter = machine.program_counter]

\* C14 witness: a fetch of an instruction with two operand bytes that form
\* an address above the zero page.
C14_Witness ==
    /\ last.op = "fetch_next_and_decode"
    /\ last.ret /= None
    /\ machine.program_counter = last.pre.program_counter + 3
    /\ last.ret.am.kind = "UseAddress"
    /\ last.ret.am.val > 255

(***************************************************************************)
(* execute_instruction, once, with every operand byte: each implemented    *)
(* instruction with every immediate value and with addresses in and past   *)
(* the memory the model holds, on machines whose memory holds bytes on     *)
(* both sides of the sign bit.                                             *)
(***************************************************************************)
DispatchDecoded ==
    {Some(i, UseImmediate(b)) : i \in {"ADC", "LDA", "LDX", "LDY"}, b \in Byte}
    \cup {Some(i, UseAddress(a)) : i \in {"ADC", "LDA", "LDX", "LDY"}, a \in 0..MemSize}
    \cup {Some("DEX", UseImplied)}

DispatchStarts ==
    {[Machine_new EXCEPT !.accumulator = r, !.index_x = -3, !.index_y = 64,
                         !.program_counter = 1, !.status = s,
                         !.memory = [a \in LowAddr |-> (k + 127 * a) % 256]] :
        r \in {5, -128}, s \in {{}, {"C", "N", "D"}, {"Z", "V", "I", "B"}},
        k \in {1, 129}}

InitDispatch ==
    /\ machine \in DispatchStarts
    /\ loop = LoopIdle
    /\ last = LastNone
    /\ recent = RecentNone
    /\ ops = 0
    /\ chain = ChainOff

NextDispatch == Execute(DispatchDecoded, 1)

SpecDispatch == InitDispatch /\ [][NextDispatch]_vars

\* The operand byte of decoded instruction d on machine m: the immediate
\* value, or the memory byte at the address.
OperandByte(m, d) ==
    IF d.am.kind = "UseImmediate" THEN d.am.val ELSE get_byte(m.memory, d.am.val)

\* C16: executing Add-With-Carry, Load-Accumulator, Load-X or Load-Y with an
\* immediate or address operand has the effect of the matching primitive
\* applied to the operand byte read as a signed value (128..255 become
\* -128..-1), and executing (Decrement-X, Implied) has the effect of dec_x.
C16_DispatcherEquivalence ==
    last.op = "execute_instruction" =>
        LET d == last.d
            v == SignedOf(OperandByte(last.pre, d))
            hasByte == d.am.kind \in {"UseImmediate", "UseAddress"}
        IN /\ (d.instr = "ADC" /\ hasByte) => machine = add_with_carry(last.pre, v)
           /\ (d.instr = "LDA" /\ hasByte) => machine = load_accumulator(last.pre, v)
           /\ (d.instr = "LDX" /\ hasByte) => machine = load_x_register(last.pre, v)
           /\ (d.instr = "LDY" /\ hasByte) => machine = load_y_register(last.pre, v)
           /\ (d.instr = "DEX" /\ d.am.kind = "UseImplied") => machine = dec_x(last.pre)

\* C16 witness: Load-X executed with the address of a memory byte above 127,
\* leaving a negative index_x.
C16_Witness ==
    /\ last.op = "execute_instruction"
    /\ last.d.instr = "LDX"
    /\ last.d.am.kind = "UseAddress"
    /\ get_byte(last.pre.memory, last.d.am.val) >= 128
    /\ machine.index_x = get_byte(last.pre.memory, last.d.am.val) - 256

(***************************************************************************)
(* run() as a computation that goes on: a loop that is about to fetch      *)
(* fetches, and one that is about to execute executes.                     *)
(***************************************************************************)
SpecRunFair == SpecRun /\ WF_vars(RunFetch) /\ WF_vars(RunExecute)

RECURSIVE ReachesWithin(_, _, _)
\* The sequence of instruction-start addresses of machine m from address p
\* comes to an undefined opcode byte within its first k addresses.
ReachesWithin(m, p, k) ==
    IF k = 0 THEN FALSE
    ELSE LET at == [m EXCEPT !.program_counter = p]
         IN IF AtUndefinedOpcode(at) THEN TRUE
            ELSE ReachesWithin(m, InstrEnd(at), k - 1)

RECURSIVE ReachesFrom(_, _, _)
\* The sequence of instruction-start addresses of machine m from address p
\* comes to an undefined opcode byte at all.  Past the bytes the model holds
\* memory is zero, a defined opcode without operand, so that the sequence
\* steps through every address up to the last and comes round to address 0,
\* once (wrapped), after which it repeats.
ReachesFrom(m, p, wrapped) ==
    IF p \in LowAddr
    THEN LET at == [m EXCEPT !.program_counter = p]
         IN IF AtUndefinedOpcode(at) THEN TRUE
            ELSE ReachesFrom(m, InstrEnd(at), wrapped)
    ELSE IF wrapped THEN FALSE ELSE ReachesFrom(m, 0, TRUE)

\* C17: a run() whose sequence of instruction-start addresses comes to an
\* undefined opcode byte (within MaxRunSteps addresses) eventually returns,
\* and a run() returns only if its sequence comes to such a byte: over
\* defined opcodes alone it never returns.
C17_RunTermination ==
    /\ [](loop.returned => ReachesFrom(loop.start, loop.start.program_counter, FALSE))
    /\ (loop.pc = "fetch" /\ loop.fetched = 0
            /\ ReachesWithin(machine, machine.program_counter, MaxRunSteps))
           ~> loop.returned

\* C17 witness: run() has returned after executing two instructions or more.
C17_Witness ==
    /\ loop.returned
    /\ loop.executed >= 2
    /\ ~AtUndefinedOpcode(loop.start)

(***************************************************************************)
(* execute_instruction with every (instruction, operand) pair, and run(),  *)
(* on a machine whose memory holds any program.                            *)
(***************************************************************************)
NextFrame ==
    \/ Execute(AllDecoded, 1)
    \/ Run(1)
    \/ RunFetch
    \/ RunExecute

SpecFrame == InitRun /\ [][NextFrame]_vars

\* C18: execute_instruction leaves every memory byte and the program counter
\* as they were, for every pair; over a run() memory stays as it was when
\* run() was called, and the program counter changes in fetches only, each
\* time forward by 1 + extra_bytes of the opcode fetched.
C18_ExecuteFrame ==
    /\ last.op \in {"execute_instruction", "run_execute"} =>
           /\ \A a \in LowAddr : machine.memory[a] = last.pre.memory[a]
           /\ machine.program_counter = last.pre.program_counter
    /\ (loop.pc /= "idle" \/ loop.returned) =>
           /\ machine.memory = loop.start.memory
           /\ machine.program_counter >= loop.start.program_counter + loop.executed
    /\ (last.op = "run_fetch" /\ machine.program_counter /= last.pre.program_counter) =>
           /\ last.ret /= None
           /\ machine.program_counter =
                  last.pre.program_counter + 1
                  + extra_bytes(OPCODES(get_byte(last.pre.memory,
                                                 last.pre.program_counter))[2])

\* C18 witness: run() has executed an instruction that read an operand from
\* memory and changed the accumulator, after an earlier instruction.
C18_Witness ==
    /\ last.op = "run_execute"
    /\ last.d.instr = "ADC"
    /\ last.d.am.kind = "UseAddress"
    /\ machine.accumulator /= last.pre.accumulator
    /\ loop.executed >= 2

(***************************************************************************)
(* The two-byte addition: load_accumulator(lo1); add_with_carry(lo2);      *)
(* load_accumulator(hi1); add_with_carry(hi2), from a new machine (Carry   *)
(* clear).  Every pair of low bytes is followed by the high bytes of       *)
(* ChainHighVals, and the low bytes of ChainLowVals with 1 added, one pair *)
(* that carries and one that does not, by every pair of high bytes.        *)
(***************************************************************************)
\* Low bytes 1 and 255: adding 1 to them gives no carry and a carry.
ChainLowVals == {1, -1}

\* High bytes 0 and 255.
ChainHighVals == {0, -1}

\* The high bytes that follow the low bytes of the sequence so far.
ChainHighs ==
    IF Len(chain.calls) >= 2 /\ chain.calls[1].arg \in ChainLowVals /\ chain.calls[2].arg = 1
    THEN Int8
    ELSE ChainHighVals

InitChain ==
    /\ machine = Machine_new
    /\ loop = LoopIdle
    /\ last = LastNone
    /\ recent = RecentNone
    /\ ops = 0
    /\ chain = [on |-> TRUE, calls |-> <<>>]

ChainLoadLow == ops = 0 /\ LoadAccumulator(Int8, 4)

ChainAddLow == ops = 1 /\ AddWithCarry(Int8, 4)

ChainLoadHigh == ops = 2 /\ LoadAccumulator(ChainHighs, 4)

ChainAddHigh == ops = 3 /\ AddWithCarry(ChainHighs, 4)

NextChain ==
    \/ ChainLoadLow
    \/ ChainAddLow
    \/ ChainLoadHigh
    \/ ChainAddHigh

SpecChain == InitChain /\ [][NextChain]_vars

\* The unsigned byte of the k-th operand of the sequence, and of the
\* accumulator the k-th call left.
ChainArg(k) == ToU8(chain.calls[k].arg)

ChainAcc(k) == ToU8(chain.calls[k].acc)

\* C19: after load_accumulator(lo1); add_with_carry(lo2); load_accumulator(hi1);
\* add_with_carry(hi2) from Carry clear, the accumulator bytes r_lo and r_hi
\* the two additions left satisfy
\* r_hi*256 + r_lo = ((hi1*256 + lo1) + (hi2*256 + lo2)) mod 65536.
C19_CarryChain ==
    Len(chain.calls) = 4 =>
        /\ <<chain.calls[1].op, chain.calls[2].op, chain.calls[3].op, chain.calls[4].op>>
               = <<"load_accumulator", "add_with_carry", "load_accumulator", "add_with_carry">>
        /\ ChainAcc(4) = ToU8(machine.accumulator)
        /\ ChainAcc(4) * 256 + ChainAcc(2)
               = ((ChainArg(3) * 256 + ChainArg(1)) + (ChainArg(4) * 256 + ChainArg(2))) % 65536

\* C19 witness: a two-byte addition whose low bytes carried into high bytes
\* that are neither 0 nor 255, the carry having survived a load of a
\* negative value.
C19_Witness ==
    /\ Len(chain.calls) = 4
    /\ ChainArg(1) + ChainArg(2) > 255
    /\ ChainArg(3) = 200
    /\ ChainArg(4) = 17
    /\ ChainAcc(4) = 218

====
